---- MODULE Spec2Model ----
(***************************************************************************)
(* Model of rmq_client: the connection lifecycle of RMQConnection and its  *)
(* two subclasses (RMQProducerConnection, RMQConsumerConnection) and the   *)
(* confirm-mode publish/retry engine of RMQProducerConnection.             *)
(*                                                                         *)
(* One connection process is modelled.  It holds two execution contexts:   *)
(* the main thread, which runs the pika IO loop and every broker callback, *)
(* and the daemon worker thread started by *_connection_started, which     *)
(* blocks on the work queue.  publish() is executed by whichever thread    *)
(* calls it, statement by statement, so that the two threads interleave    *)
(* the way the interpreter lets them.                                      *)
(*                                                                         *)
(* The controlling process is modelled in separate specifications over the *)
(* same variables: RMQRPCHandler (SpecRpcClient, SpecRpcServer,            *)
(* SpecRpcReady), the confirm-mode observer of RMQProducer (SpecConfirm)   *)
(* and the subscription key of RMQConsumer.consume (SpecConsume).  Each    *)
(* specification leaves the variables of the other parts unchanged.        *)
(***************************************************************************)
EXTENDS Integers, Sequences, FiniteSets, TLC

\* ------------------------------------------------------------------ bounds
\* Number of Publish commands the controlling process may submit.
NumPublish == 2
\* Number of Basic.Nack frames the broker sends on the channel.
MaxNack == 4

\* Number of rpc_call invocations the application makes.
NumCalls == 2
\* Number of messages delivered to handle_rpc_response.
MaxReply == 2
\* Number of enable_rpc_server calls (and of enable_rpc_client calls).
MaxEnable == 2
\* Number of messages delivered to handle_rpc_request.
NumRequests == 2
\* Number of RMQProducer.publish calls the application makes.
NumKeys == 3
\* Number of RMQConsumer.consume calls the application makes.
MaxConsume == 2

\* ------------------------------------------------------- program constants
\* Publish.MAX_ATTEMPTS, defined in rmq_client/defs.py.
MAX_ATTEMPTS == 3

Pubs == 1 .. NumPublish
NoPub == 0
Threads == {"worker", "loop"}
Roles == {"producer", "consumer"}
Signals == {"SIGINT", "SIGTERM"}
Frames == {"ack", "nack"}

\* A Publish carrying reply_to or correlation_id (an RPC request/response).
\* Even-numbered commands are RPC publishes, odd-numbered ones are plain.
HasReplyToOrCorrelationId(p) == p % 2 = 0

\* RPC_REPLY_PREFIX and RPC_DEFAULT_REPLY of rmq_client/rpc.py.
RPC_REPLY_PREFIX == "RPC-REPLY-"
RPC_DEFAULT_REPLY == "NONE"

\* Python's None, as the value of a callback or result not yet set.
None == "None"
\* A queue name is a str, modelled as the sequence of the parts it was
\* concatenated from ("" is the empty sequence); NoName is None in its place.
NoName == <<"None">>
Calls == 1 .. NumCalls
Requests == 1 .. NumRequests
\* Queue names the application passes to enable_rpc_server.
QueueNames == {<< >>, <<"svc">>, <<"svc2">>}
\* Request callbacks the application passes to enable_rpc_server.
Callbacks == {"cb1", "cb2"}
\* Payloads of the replies the remote RPC server sends.
Payloads == {"pong1", "pong2"}
\* A correlation id no rpc_call of this process has generated.
UnknownCorr == 0

VARIABLES
  role,            \* which subclass of RMQConnection this process runs
  transport,       \* state of the pika.SelectConnection
  phase,           \* progress of the open sequence of callbacks
  closing,         \* self._closing
  closeRequests,   \* number of self._connection.close() calls
  loopRunning,     \* the IO loop started by connect() is running
  loopStops,       \* number of self._connection.ioloop.stop() calls
  workerStarts,    \* number of monitor_work_queue threads started
  alreadyClosing,  \* disconnect() has printed "connection is already closing"
  crashed,         \* an exception left a loop callback (the process died)
  workQueue,       \* self._work_queue
  submitted,       \* Publish commands the controlling process has put
  attempts,        \* Publish.attempts of each Publish
  expectedTag,     \* self._expected_delivery_tag
  pendingConfirm,  \* self._pending_confirm
  pc,              \* position of each thread inside publish()
  cur,             \* the Publish each thread is publishing
  reg,             \* the value of _expected_delivery_tag a thread has loaded
  declareQ,        \* exchange_declare calls awaiting Exchange.DeclareOk
  brokerSeq,       \* number of basic_publish calls on the channel
  unconfirmed,     \* broker tags published and not yet acked/nacked
  sentCount,       \* basic_publish calls per Publish
  recorded,        \* the tags publish() recorded, in order
  nacks,           \* Basic.Nack frames handled per Publish
  acks,            \* Basic.Ack frames handled per Publish
  resubmits,       \* work-queue puts made by on_delivery_confirmed
  dropped,         \* Publishes dropped by the max-attempts check
  declaresIssued,  \* exchange_declare calls per Publish
  declaresDone,    \* on_exchange_declared callbacks per Publish
  requestQueueName,    \* RMQRPCHandler._request_queue_name
  rpcRequestCallback,  \* RMQRPCHandler._rpc_request_callback
  responseQueueName,   \* RMQRPCHandler._response_queue_name
  pendingRequests,     \* RMQRPCHandler._pending_requests: corr id -> slot
  uuids,               \* number of uuid.uuid1() calls made
  subscriptions,       \* rpc_server/rpc_client calls made on the consumer
  consumeOk,           \* queues whose subscription the consumer reports ready
  callPc,              \* position of each rpc_call
  corrId,              \* corr_id of each rpc_call
  response,            \* RPCResponse.response of each rpc_call's slot
  blocker,             \* RPCResponse.blocker (Event) of each rpc_call's slot
  timedOut,            \* blocker.wait returned because 2.0 s elapsed
  result,              \* the value each rpc_call returned
  handlerPc,           \* position of the thread running handle_rpc_response
  handlerSlot,         \* the slot handle_rpc_response popped
  handlerMsg,          \* message.message of the reply being handled
  replies,             \* number of replies delivered to handle_rpc_response
  keyErrors,           \* KeyErrors raised by handle_rpc_response
  removedBy,           \* who removed each rpc_call's slot from the map
  arrived,             \* the reply that took each rpc_call's slot, and
                       \* whether it did so before the call's wait timed out
  serverEnables,       \* enable_rpc_server calls made
  firstServer,         \* arguments of the first enable_rpc_server call
  clientEnables,       \* enable_rpc_client calls made
  handled,             \* requests delivered to handle_rpc_request, in order
  callbackLog,         \* invocations of the request callback, in order
  responseLog,         \* rpc_response calls made on the producer, in order
  producerStarted,     \* RMQProducer.start() has been called
  confirmMode,         \* progress of activate_confirm_mode
  bufferedMessages,    \* RMQProducer._buffered_messages
  unackedPublishes,    \* RMQProducer._unacked_publishes: tag -> publish key
  publishKeys,         \* publish keys returned by publish() so far
  deliveryTag,         \* delivery tags used on the confirm-mode channel
  tracked,             \* publish keys sent on the confirm-mode channel
  confirmLog,          \* what the confirm-mode observer was called with
  consumed,            \* consume() calls made: topology and returned key
  pendingAtDisconnect  \* the Publishes in _pending_confirm when
                       \* disconnect() called self._connection.close()

lifeVars == <<role, transport, phase, closing, closeRequests, loopRunning,
              loopStops, workerStarts, alreadyClosing, crashed>>
queueVars == <<workQueue, submitted>>
pubVars == <<attempts, expectedTag, pendingConfirm, pc, cur, reg, brokerSeq,
             unconfirmed, sentCount, recorded>>
confirmVars == <<nacks, acks, resubmits>>
declVars == <<declareQ, declaresIssued, declaresDone>>
connVars == <<lifeVars, queueVars, pubVars, confirmVars, declVars, dropped>>
handlerVars == <<requestQueueName, rpcRequestCallback, responseQueueName,
                 pendingRequests, uuids, subscriptions, consumeOk>>
callVars == <<callPc, corrId, response, blocker, timedOut, result>>
replyVars == <<handlerPc, handlerSlot, handlerMsg, replies, keyErrors,
               removedBy, arrived>>
serverVars == <<serverEnables, firstServer, clientEnables, handled,
                callbackLog, responseLog>>
rpcVars == <<handlerVars, callVars, replyVars, serverVars>>
facadeVars == <<producerStarted, confirmMode, bufferedMessages,
                unackedPublishes, publishKeys, deliveryTag, tracked,
                confirmLog>>
vars == <<connVars, rpcVars, facadeVars, consumed, pendingAtDisconnect>>

Range(f) == {f[x] : x \in DOMAIN f}
SeqRange(s) == {s[i] : i \in 1 .. Len(s)}

\* The process is alive: connect() has not returned and nothing was raised.
Alive == loopRunning /\ ~crashed
\* The loop thread is between callbacks.
LoopIdle == Alive /\ pc["loop"] = "idle"
\* Channel methods can be called (the connection has not been closed).
ChannelUsable == transport \in {"open", "closing"}

\* A new RMQProducer and a new RMQConsumer: not started, confirm mode off,
\* nothing published or buffered, nothing subscribed.
FacadeInit ==
  /\ producerStarted = FALSE
  /\ confirmMode = "off"
  /\ bufferedMessages = << >>
  /\ unackedPublishes = [t \in {} |-> NoPub]
  /\ publishKeys = {}
  /\ deliveryTag = 0
  /\ tracked = {}
  /\ confirmLog = << >>
  /\ consumed = << >>

\* RMQRPCHandler.__init__: no queue name is set, nothing is subscribed.
RpcInit ==
  /\ requestQueueName = NoName
  /\ rpcRequestCallback = None
  /\ responseQueueName = NoName
  /\ pendingRequests = [k \in {} |-> 0]
  /\ uuids = 0
  /\ subscriptions = <<>>
  /\ consumeOk = {}
  /\ callPc = [c \in Calls |-> "idle"]
  /\ corrId = [c \in Calls |-> UnknownCorr]
  /\ response = [c \in Calls |-> RPC_DEFAULT_REPLY]
  /\ blocker = [c \in Calls |-> FALSE]
  /\ timedOut = [c \in Calls |-> FALSE]
  /\ result = [c \in Calls |-> None]
  /\ handlerPc = "idle"
  /\ handlerSlot = 0
  /\ handlerMsg = None
  /\ replies = 0
  /\ keyErrors = 0
  /\ removedBy = [c \in Calls |-> <<>>]
  /\ arrived = [c \in Calls |-> [message |-> None, inTime |-> FALSE]]
  /\ serverEnables = 0
  /\ firstServer = [queue |-> NoName, callback |-> None]
  /\ clientEnables = 0
  /\ handled = <<>>
  /\ callbackLog = <<>>
  /\ responseLog = <<>>

Init ==
  /\ role \in Roles
  /\ pendingAtDisconnect = {}
  /\ transport = "connecting"
  /\ phase = "init"
  /\ closing = FALSE
  /\ closeRequests = 0
  /\ loopRunning = TRUE
  /\ loopStops = 0
  /\ workerStarts = 0
  /\ alreadyClosing = FALSE
  /\ crashed = FALSE
  /\ workQueue = <<>>
  /\ submitted = {}
  /\ attempts = [p \in Pubs |-> 0]
  /\ expectedTag = 0
  /\ pendingConfirm = [t \in {} |-> NoPub]
  /\ pc = [t \in Threads |-> IF t = "loop" THEN "idle" ELSE "none"]
  /\ cur = [t \in Threads |-> NoPub]
  /\ reg = [t \in Threads |-> 0]
  /\ declareQ = <<>>
  /\ brokerSeq = 0
  /\ unconfirmed = {}
  /\ sentCount = [p \in Pubs |-> 0]
  /\ recorded = <<>>
  /\ nacks = [p \in Pubs |-> 0]
  /\ acks = [p \in Pubs |-> 0]
  /\ resubmits = [p \in Pubs |-> 0]
  /\ dropped = [p \in Pubs |-> FALSE]
  /\ declaresIssued = [p \in Pubs |-> 0]
  /\ declaresDone = [p \in Pubs |-> 0]
  /\ RpcInit
  /\ FacadeInit


\* ------------------------------------------------- connection lifecycle

\* disconnect() without the "if not self._closing" guard: close() every time.
disconnect_NoGuard(flag) ==
  /\ closing' = TRUE
  /\ closeRequests' = closeRequests + 1
  /\ transport' = IF transport \in {"connecting", "open"}
                    THEN "closing" ELSE transport
  /\ alreadyClosing' = (alreadyClosing \/ flag)
  /\ UNCHANGED <<loopRunning, loopStops>>

\* disconnect() that finalizes at once instead of waiting for the closed
\* notification: ioloop.stop() right after close().
disconnect_StopsLoop(flag) ==
  /\ IF ~flag
       THEN /\ closing' = TRUE
            /\ closeRequests' = closeRequests + 1
            /\ transport' = IF transport \in {"connecting", "open"}
                              THEN "closing" ELSE transport
            /\ loopStops' = loopStops + 1
            /\ loopRunning' = FALSE
            /\ UNCHANGED alreadyClosing
       ELSE /\ closing' = flag
            /\ alreadyClosing' = TRUE
            /\ UNCHANGED <<closeRequests, transport, loopRunning, loopStops>>

\* RMQConnection.disconnect, entered with self._closing = flag.
disconnect(flag) ==
  /\ IF ~flag
       THEN /\ closing' = TRUE
            /\ closeRequests' = closeRequests + 1
            /\ transport' = IF transport \in {"connecting", "open"}
                              THEN "closing" ELSE transport
            /\ UNCHANGED alreadyClosing
       ELSE /\ closing' = flag
            /\ alreadyClosing' = TRUE
            /\ UNCHANGED <<closeRequests, transport>>
  /\ UNCHANGED <<loopRunning, loopStops>>

\* RMQConnection.finalize_disconnect
finalize_disconnect ==
  /\ loopStops' = loopStops + 1
  /\ loopRunning' = FALSE

\* RMQProducerConnection.interrupt / terminate: the handler sets
\* self._closing = True and then calls disconnect().
ProducerSignal ==
  disconnect(TRUE)

\* RMQConsumerConnection.interrupt / terminate: the handler calls disconnect().
ConsumerSignal ==
  disconnect(closing)

\* A SIGINT or SIGTERM is delivered; the handler runs in the main thread
\* between two bytecodes, whatever the loop is doing.
Signal(sig) ==
  /\ Alive
  /\ IF role = "producer" THEN ProducerSignal ELSE ConsumerSignal
  /\ UNCHANGED <<role, phase, workerStarts, crashed>>
  /\ UNCHANGED <<queueVars, pubVars, confirmVars, declVars, dropped>>

\* disconnect() called directly on the connection object.
Disconnect ==
  /\ Alive
  /\ disconnect(closing)
  /\ UNCHANGED <<role, phase, workerStarts, crashed>>
  /\ UNCHANGED <<queueVars, pubVars, confirmVars, declVars, dropped>>

\* *_connection_started: Thread(target=self.monitor_work_queue).start()
StartWorker ==
  /\ workerStarts' = workerStarts + 1
  /\ pc' = [pc EXCEPT !["worker"] = "idle"]

\* on_connection_open of either subclass: a channel is requested.
OnConnectionOpen ==
  /\ LoopIdle
  /\ transport = "connecting"
  /\ transport' = "open"
  /\ phase' = "channel_opening"
  /\ UNCHANGED <<role, closing, closeRequests, loopRunning, loopStops,
                 workerStarts, alreadyClosing, crashed>>
  /\ UNCHANGED <<queueVars, pubVars, confirmVars, declVars, dropped>>

\* on_channel_open that starts the work-queue monitor of the producer
\* connection at once, as the consumer connection does.
OnChannelOpen_StartsWorker ==
  /\ LoopIdle
  /\ ChannelUsable
  /\ phase = "channel_opening"
  /\ phase' = IF role = "producer" THEN "confirm_activating" ELSE "ready"
  /\ StartWorker
  /\ UNCHANGED <<role, transport, closing, closeRequests, loopRunning,
                 loopStops, alreadyClosing, crashed>>
  /\ UNCHANGED <<queueVars, attempts, expectedTag, pendingConfirm, cur, reg,
                 brokerSeq, unconfirmed, sentCount, recorded>>
  /\ UNCHANGED <<confirmVars, declVars, dropped>>

\* RMQProducerConnection.on_channel_open: confirm_delivery is requested.
\* RMQConsumerConnection.on_channel_open: consumer_connection_started().
OnChannelOpen ==
  /\ LoopIdle
  /\ ChannelUsable
  /\ phase = "channel_opening"
  /\ IF role = "producer"
       THEN /\ phase' = "confirm_activating"
            /\ UNCHANGED <<workerStarts, pc>>
       ELSE /\ phase' = "ready"
            /\ StartWorker
  /\ UNCHANGED <<role, transport, closing, closeRequests, loopRunning,
                 loopStops, alreadyClosing, crashed>>
  /\ UNCHANGED <<queueVars, attempts, expectedTag, pendingConfirm, cur, reg,
                 brokerSeq, unconfirmed, sentCount, recorded>>
  /\ UNCHANGED <<confirmVars, declVars, dropped>>

\* RMQProducerConnection.on_confirm_mode_activated -> producer_connection_started
OnConfirmModeActivated ==
  /\ LoopIdle
  /\ ChannelUsable
  /\ role = "producer"
  /\ phase = "confirm_activating"
  /\ phase' = "ready"
  /\ StartWorker
  /\ UNCHANGED <<role, transport, closing, closeRequests, loopRunning,
                 loopStops, alreadyClosing, crashed>>
  /\ UNCHANGED <<queueVars, attempts, expectedTag, pendingConfirm, cur, reg,
                 brokerSeq, unconfirmed, sentCount, recorded>>
  /\ UNCHANGED <<confirmVars, declVars, dropped>>

\* RMQConsumerConnection.on_connection_closed: both branches finalize.
ConsumerOnConnectionClosed ==
  finalize_disconnect

\* RMQProducerConnection defines no on_connection_closed: the callback it
\* registers is the body RMQConnection declares, which does nothing.
ProducerOnConnectionClosed ==
  UNCHANGED <<loopStops, loopRunning>>

\* The transport reports the connection closed (after close(), or not).
OnConnectionClosed ==
  /\ LoopIdle
  /\ transport \in {"open", "closing"}
  /\ transport' = "closed"
  /\ IF role = "consumer"
       THEN ConsumerOnConnectionClosed
       ELSE ProducerOnConnectionClosed
  /\ UNCHANGED <<role, phase, closing, closeRequests, workerStarts,
                 alreadyClosing, crashed>>
  /\ UNCHANGED <<queueVars, pubVars, confirmVars, declVars, dropped>>


\* ------------------------------------------------- publish / retry engine

\* Two Publish commands that differ in nothing but their identity.
SameKind(p, q) == HasReplyToOrCorrelationId(p) = HasReplyToOrCorrelationId(q)

\* The controlling process puts Publish p on the work queue.  Of several
\* commands of the same kind, the lowest-numbered one is put first.
Submit(p) ==
  /\ Alive
  /\ role = "producer"
  /\ p \notin submitted
  /\ \A q \in Pubs : (q < p /\ SameKind(q, p)) => q \in submitted
  /\ submitted' = submitted \cup {p}
  /\ workQueue' = Append(workQueue, p)
  /\ UNCHANGED <<lifeVars, pubVars, confirmVars, declVars, dropped>>

\* Publish.attempt(): increments the attempt counter, returns the Publish.
attempt(p) ==
  attempts' = [attempts EXCEPT ![p] = @ + 1]

\* The max-attempts check one attempt too late.
MaxAttemptsExceeded_OffByOne(p) ==
  attempts[p] > MAX_ATTEMPTS + 1

\* handle_publish: "if publish.attempts > publish.MAX_ATTEMPTS"
MaxAttemptsExceeded(p) ==
  attempts[p] > MAX_ATTEMPTS

\* Thread t enters publish(p).
EnterPublish(t, p) ==
  /\ pc' = [pc EXCEPT ![t] = "load"]
  /\ cur' = [cur EXCEPT ![t] = p]

\* self._channel.exchange_declare(..., callback=on_exchange_declared(publish=p))
\* called by the worker thread; it raises in that thread once the connection
\* has been closed, which ends the thread.
exchange_declare(p) ==
  IF ChannelUsable
    THEN /\ declareQ' = Append(declareQ, p)
         /\ declaresIssued' = [declaresIssued EXCEPT ![p] = @ + 1]
         /\ UNCHANGED <<pc, cur>>
    ELSE /\ pc' = [pc EXCEPT !["worker"] = "dead"]
         /\ UNCHANGED <<cur, declareQ, declaresIssued>>

\* handle_publish that publishes every Publish at once, declaring nothing.
handle_publish_NoDeclare(p) ==
  IF MaxAttemptsExceeded(p)
    THEN /\ dropped' = [dropped EXCEPT ![p] = TRUE]
         /\ UNCHANGED <<pc, cur, declareQ, declaresIssued>>
    ELSE /\ UNCHANGED dropped
         /\ EnterPublish("worker", p)
         /\ UNCHANGED <<declareQ, declaresIssued>>

\* RMQProducerConnection.handle_publish, run by the worker thread.
handle_publish(p) ==
  IF MaxAttemptsExceeded(p)
    THEN /\ dropped' = [dropped EXCEPT ![p] = TRUE]
         /\ UNCHANGED <<pc, cur, declareQ, declaresIssued>>
    ELSE /\ UNCHANGED dropped
         /\ IF HasReplyToOrCorrelationId(p)
              THEN /\ EnterPublish("worker", p)
                   /\ UNCHANGED <<declareQ, declaresIssued>>
              ELSE exchange_declare(p)

\* monitor_work_queue -> handle_work -> handle_publish: the worker thread
\* takes the next item off the work queue and handles it.
MonitorWorkQueue ==
  /\ Alive
  /\ role = "producer"
  /\ pc["worker"] = "idle"
  /\ workQueue # <<>>
  /\ workQueue' = Tail(workQueue)
  /\ handle_publish(Head(workQueue))
  /\ UNCHANGED <<lifeVars, submitted, attempts, expectedTag, pendingConfirm,
                 reg, brokerSeq, unconfirmed, sentCount, recorded,
                 confirmVars, declaresDone>>

\* publish(), "self._expected_delivery_tag += 1": the read of the attribute.
PublishLoad(t) ==
  /\ Alive
  /\ pc[t] = "load"
  /\ reg' = [reg EXCEPT ![t] = expectedTag]
  /\ pc' = [pc EXCEPT ![t] = "store"]
  /\ UNCHANGED <<lifeVars, queueVars, attempts, expectedTag, pendingConfirm,
                 cur, brokerSeq, unconfirmed, sentCount, recorded,
                 confirmVars, declVars, dropped>>

\* The value "+= 1" stores from the value it has read.
NextTag(r) == r + 1

\* publish(), "self._expected_delivery_tag += 1": the write of the attribute.
PublishStore(t) ==
  /\ Alive
  /\ pc[t] = "store"
  /\ expectedTag' = NextTag(reg[t])
  /\ reg' = [reg EXCEPT ![t] = 0]
  /\ pc' = [pc EXCEPT ![t] = "record"]
  /\ UNCHANGED <<lifeVars, queueVars, attempts, pendingConfirm, cur,
                 brokerSeq, unconfirmed, sentCount, recorded, confirmVars,
                 declVars, dropped>>

\* dict.update({tag: p}): the entry for tag is set, whatever it held.
Update(d, tag, p) ==
  [k \in DOMAIN d \cup {tag} |-> IF k = tag THEN p ELSE d[k]]

\* dict.pop(tag) on a dict holding tag: the dict without it.
Pop(d, tag) ==
  [k \in DOMAIN d \ {tag} |-> d[k]]

\* publish(): self._pending_confirm.update(
\*                {self._expected_delivery_tag: publish.attempt()})
PublishRecord(t) ==
  /\ Alive
  /\ pc[t] = "record"
  /\ attempt(cur[t])
  /\ pendingConfirm' = Update(pendingConfirm, expectedTag, cur[t])
  /\ recorded' = Append(recorded, expectedTag)
  /\ pc' = [pc EXCEPT ![t] = "send"]
  /\ UNCHANGED <<lifeVars, queueVars, expectedTag, cur, reg, brokerSeq,
                 unconfirmed, sentCount, confirmVars, declVars, dropped>>

\* publish(): self._channel.basic_publish(...).  The broker numbers the
\* messages of the channel 1, 2, ... in the order they are published.  On a
\* closed connection the call raises in the calling thread.
PublishSend(t) ==
  /\ Alive
  /\ pc[t] = "send"
  /\ cur' = [cur EXCEPT ![t] = NoPub]
  /\ IF ChannelUsable
       THEN /\ brokerSeq' = brokerSeq + 1
            /\ unconfirmed' = unconfirmed \cup {brokerSeq + 1}
            /\ sentCount' = [sentCount EXCEPT ![cur[t]] = @ + 1]
            /\ pc' = [pc EXCEPT ![t] = "idle"]
            /\ UNCHANGED crashed
       ELSE /\ pc' = [pc EXCEPT ![t] = IF t = "worker" THEN "dead" ELSE "idle"]
            /\ crashed' = (crashed \/ t = "loop")
            /\ UNCHANGED <<brokerSeq, unconfirmed, sentCount>>
  /\ UNCHANGED <<role, transport, phase, closing, closeRequests, loopRunning,
                 loopStops, workerStarts, alreadyClosing>>
  /\ UNCHANGED <<queueVars, attempts, expectedTag, pendingConfirm, reg,
                 recorded, confirmVars, declVars, dropped>>

\* RMQProducerConnection.on_exchange_declared: publish(publish)
on_exchange_declared(p) ==
  /\ declaresDone' = [declaresDone EXCEPT ![p] = @ + 1]
  /\ EnterPublish("loop", p)

\* The broker answers the oldest exchange_declare with Exchange.DeclareOk.
ExchangeDeclareOk ==
  /\ LoopIdle
  /\ ChannelUsable
  /\ declareQ # <<>>
  /\ declareQ' = Tail(declareQ)
  /\ on_exchange_declared(Head(declareQ))
  /\ UNCHANGED <<lifeVars, queueVars, attempts, expectedTag, pendingConfirm,
                 reg, brokerSeq, unconfirmed, sentCount, recorded,
                 confirmVars, declaresIssued, dropped>>

\* on_delivery_confirmed that puts a nacked Publish on the work queue twice.
on_delivery_confirmed_PutTwice(tag, frame) ==
  IF tag \notin DOMAIN pendingConfirm
    THEN /\ crashed' = TRUE
         /\ UNCHANGED <<pendingConfirm, workQueue, confirmVars>>
    ELSE /\ UNCHANGED crashed
         /\ pendingConfirm' = Pop(pendingConfirm, tag)
         /\ IF frame = "nack"
              THEN /\ workQueue' = workQueue \o
                        <<pendingConfirm[tag], pendingConfirm[tag]>>
                   /\ nacks' = [nacks EXCEPT ![pendingConfirm[tag]] = @ + 1]
                   /\ resubmits' =
                        [resubmits EXCEPT ![pendingConfirm[tag]] = @ + 2]
                   /\ UNCHANGED acks
              ELSE /\ acks' = [acks EXCEPT ![pendingConfirm[tag]] = @ + 1]
                   /\ UNCHANGED <<workQueue, nacks, resubmits>>

\* on_delivery_confirmed without the isinstance(frame.method, Basic.Nack)
\* test: the Publish is put back on the work queue on an ack too.
on_delivery_confirmed_AlwaysPut(tag, frame) ==
  IF tag \notin DOMAIN pendingConfirm
    THEN /\ crashed' = TRUE
         /\ UNCHANGED <<pendingConfirm, workQueue, confirmVars>>
    ELSE /\ UNCHANGED crashed
         /\ pendingConfirm' = Pop(pendingConfirm, tag)
         /\ workQueue' = Append(workQueue, pendingConfirm[tag])
         /\ resubmits' = [resubmits EXCEPT ![pendingConfirm[tag]] = @ + 1]
         /\ IF frame = "nack"
              THEN /\ nacks' = [nacks EXCEPT ![pendingConfirm[tag]] = @ + 1]
                   /\ UNCHANGED acks
              ELSE /\ acks' = [acks EXCEPT ![pendingConfirm[tag]] = @ + 1]
                   /\ UNCHANGED nacks

\* on_delivery_confirmed that takes a Basic.Ack for tag as confirming every
\* tag up to it: the entries of the smaller tags are removed as well.
on_delivery_confirmed_AckUpTo(tag, frame) ==
  IF tag \notin DOMAIN pendingConfirm
    THEN /\ crashed' = TRUE
         /\ UNCHANGED <<pendingConfirm, workQueue, confirmVars>>
    ELSE /\ UNCHANGED crashed
         /\ IF frame = "nack"
              THEN /\ pendingConfirm' = Pop(pendingConfirm, tag)
                   /\ workQueue' = Append(workQueue, pendingConfirm[tag])
                   /\ nacks' = [nacks EXCEPT ![pendingConfirm[tag]] = @ + 1]
                   /\ resubmits' =
                        [resubmits EXCEPT ![pendingConfirm[tag]] = @ + 1]
                   /\ UNCHANGED acks
              ELSE /\ pendingConfirm' =
                        [k \in {j \in DOMAIN pendingConfirm : j > tag} |->
                           pendingConfirm[k]]
                   /\ acks' = [acks EXCEPT ![pendingConfirm[tag]] = @ + 1]
                   /\ UNCHANGED <<workQueue, nacks, resubmits>>

\* RMQProducerConnection.on_delivery_confirmed(frame), frame.method being a
\* Basic.Ack or a Basic.Nack for delivery_tag tag.  dict.pop raises KeyError
\* when the tag is no key; the exception leaves the loop.
on_delivery_confirmed(tag, frame) ==
  IF tag \notin DOMAIN pendingConfirm
    THEN /\ crashed' = TRUE
         /\ UNCHANGED <<pendingConfirm, workQueue, confirmVars>>
    ELSE /\ UNCHANGED crashed
         /\ pendingConfirm' = Pop(pendingConfirm, tag)
         /\ IF frame = "nack"
              THEN /\ workQueue' = Append(workQueue, pendingConfirm[tag])
                   /\ nacks' = [nacks EXCEPT ![pendingConfirm[tag]] = @ + 1]
                   /\ resubmits' =
                        [resubmits EXCEPT ![pendingConfirm[tag]] = @ + 1]
                   /\ UNCHANGED acks
              ELSE /\ acks' = [acks EXCEPT ![pendingConfirm[tag]] = @ + 1]
                   /\ UNCHANGED <<workQueue, nacks, resubmits>>

RECURSIVE Sum(_, _)
Sum(f, S) == IF S = {} THEN 0
             ELSE LET x == CHOOSE y \in S : TRUE IN f[x] + Sum(f, S \ {x})

\* Basic.Nack frames handled so far.
NacksSent == Sum(nacks, Pubs)

\* The broker acks or nacks a message it has received and not yet confirmed.
DeliveryConfirmed(tag, frame) ==
  /\ LoopIdle
  /\ ChannelUsable
  /\ tag \in unconfirmed
  /\ frame = "nack" => NacksSent < MaxNack
  /\ unconfirmed' = unconfirmed \ {tag}
  /\ on_delivery_confirmed(tag, frame)
  /\ UNCHANGED <<role, transport, phase, closing, closeRequests, loopRunning,
                 loopStops, workerStarts, alreadyClosing>>
  /\ UNCHANGED <<submitted, attempts, expectedTag, pc, cur, reg, brokerSeq,
                 sentCount, recorded, declVars, dropped>>

Next ==
  \/ (\E sig \in Signals : Signal(sig)) /\ UNCHANGED <<rpcVars, facadeVars, consumed, pendingAtDisconnect>>
  \/ (Disconnect) /\ UNCHANGED <<rpcVars, facadeVars, consumed, pendingAtDisconnect>>
  \/ (OnConnectionOpen) /\ UNCHANGED <<rpcVars, facadeVars, consumed, pendingAtDisconnect>>
  \/ (OnChannelOpen) /\ UNCHANGED <<rpcVars, facadeVars, consumed, pendingAtDisconnect>>
  \/ (OnConfirmModeActivated) /\ UNCHANGED <<rpcVars, facadeVars, consumed, pendingAtDisconnect>>
  \/ (OnConnectionClosed) /\ UNCHANGED <<rpcVars, facadeVars, consumed, pendingAtDisconnect>>
  \/ (\E p \in Pubs : Submit(p)) /\ UNCHANGED <<rpcVars, facadeVars, consumed, pendingAtDisconnect>>
  \/ (MonitorWorkQueue) /\ UNCHANGED <<rpcVars, facadeVars, consumed, pendingAtDisconnect>>
  \/ (\E t \in Threads : PublishLoad(t)) /\ UNCHANGED <<rpcVars, facadeVars, consumed, pendingAtDisconnect>>
  \/ (\E t \in Threads : PublishStore(t)) /\ UNCHANGED <<rpcVars, facadeVars, consumed, pendingAtDisconnect>>
  \/ (\E t \in Threads : PublishRecord(t)) /\ UNCHANGED <<rpcVars, facadeVars, consumed, pendingAtDisconnect>>
  \/ (\E t \in Threads : PublishSend(t)) /\ UNCHANGED <<rpcVars, facadeVars, consumed, pendingAtDisconnect>>
  \/ (ExchangeDeclareOk) /\ UNCHANGED <<rpcVars, facadeVars, consumed, pendingAtDisconnect>>
  \/ (\E tag \in 1 .. brokerSeq, frame \in Frames : DeliveryConfirmed(tag, frame)) /\ UNCHANGED <<rpcVars, facadeVars, consumed, pendingAtDisconnect>>

Spec == Init /\ [][Next]_vars

\* A step of thread t: the worker thread blocks in self._work_queue.get()
\* only while the queue is empty, and a thread inside publish() runs on.
ThreadStep(t) ==
  /\ \/ t = "worker" /\ MonitorWorkQueue
     \/ PublishLoad(t)
     \/ PublishStore(t)
     \/ PublishRecord(t)
     \/ PublishSend(t)
  /\ UNCHANGED <<rpcVars, facadeVars, consumed, pendingAtDisconnect>>
\* The broker answers: Exchange.DeclareOk for a declare, a Basic.Ack or a
\* Basic.Nack for a message it has received; the loop runs the callback.
DeclareOkStep ==
  ExchangeDeclareOk
    /\ UNCHANGED <<rpcVars, facadeVars, consumed, pendingAtDisconnect>>
ConfirmStep ==
  /\ \E tag \in 1 .. brokerSeq, frame \in Frames : DeliveryConfirmed(tag, frame)
  /\ UNCHANGED <<rpcVars, facadeVars, consumed, pendingAtDisconnect>>
Fairness ==
  /\ \A t \in Threads : WF_vars(ThreadStep(t))
  /\ WF_vars(DeclareOkStep)
  /\ WF_vars(ConfirmStep)
SpecFair == Spec /\ Fairness

\* The connection process observed together with the Publishes that were in
\* _pending_confirm, their publish() having returned, when disconnect()
\* called self._connection.close().
RecordPending ==
  pendingAtDisconnect' =
    IF closeRequests' > closeRequests
      THEN Range(pendingConfirm) \ {cur[t] : t \in Threads}
      ELSE pendingAtDisconnect
NextDisconnect ==
  \/ (\E sig \in Signals : Signal(sig)) /\ RecordPending
       /\ UNCHANGED <<rpcVars, facadeVars, consumed>>
  \/ (Disconnect) /\ RecordPending
       /\ UNCHANGED <<rpcVars, facadeVars, consumed>>
  \/ (OnConnectionOpen) /\ RecordPending
       /\ UNCHANGED <<rpcVars, facadeVars, consumed>>
  \/ (OnChannelOpen) /\ RecordPending
       /\ UNCHANGED <<rpcVars, facadeVars, consumed>>
  \/ (OnConfirmModeActivated) /\ RecordPending
       /\ UNCHANGED <<rpcVars, facadeVars, consumed>>
  \/ (OnConnectionClosed) /\ RecordPending
       /\ UNCHANGED <<rpcVars, facadeVars, consumed>>
  \/ (\E p \in Pubs : Submit(p)) /\ RecordPending
       /\ UNCHANGED <<rpcVars, facadeVars, consumed>>
  \/ (MonitorWorkQueue) /\ RecordPending
       /\ UNCHANGED <<rpcVars, facadeVars, consumed>>
  \/ (\E t \in Threads : PublishLoad(t)) /\ RecordPending
       /\ UNCHANGED <<rpcVars, facadeVars, consumed>>
  \/ (\E t \in Threads : PublishStore(t)) /\ RecordPending
       /\ UNCHANGED <<rpcVars, facadeVars, consumed>>
  \/ (\E t \in Threads : PublishRecord(t)) /\ RecordPending
       /\ UNCHANGED <<rpcVars, facadeVars, consumed>>
  \/ (\E t \in Threads : PublishSend(t)) /\ RecordPending
       /\ UNCHANGED <<rpcVars, facadeVars, consumed>>
  \/ (ExchangeDeclareOk) /\ RecordPending
       /\ UNCHANGED <<rpcVars, facadeVars, consumed>>
  \/ (\E tag \in 1 .. brokerSeq, frame \in Frames : DeliveryConfirmed(tag, frame)) /\ RecordPending
       /\ UNCHANGED <<rpcVars, facadeVars, consumed>>

SpecDisconnect == Init /\ [][NextDisconnect]_vars


\* ------------------------------------------------------------- RPC handler
\* RMQRPCHandler lives in the controlling process.  rpc_call runs in the
\* application thread that calls it; handle_rpc_request and
\* handle_rpc_response run in the thread in which the consumer delivers
\* messages.  The statements of rpc_call and handle_rpc_response interleave.

\* The truth value Python gives a queue name in "if name:".
Truthy(name) == name # NoName /\ name # << >>
\* dict.update({k: v}) and dict.pop(k) on _pending_requests.
DictUpdate(d, k, v) == [x \in (DOMAIN d) \cup {k} |-> IF x = k THEN v ELSE d[x]]
DictPop(d, k) == [x \in (DOMAIN d) \ {k} |-> d[x]]
\* dict.get(k) is truthy: an entry exists (an RPCResponse object is truthy).
DictGet(d, k) == k \in DOMAIN d
\* str(uuid.uuid1()): a token no earlier call has returned.
uuid1 == uuids + 1

\* RMQConsumer.rpc_server / rpc_client: a subscription is requested.
rpc_server(queue) ==
  subscriptions' = Append(subscriptions, [kind |-> "rpc_server", queue |-> queue])
rpc_client(queue) ==
  subscriptions' = Append(subscriptions, [kind |-> "rpc_client", queue |-> queue])
\* RMQConsumer.is_rpc_consumer_ready: the subscription has got its ConsumeOK.
is_rpc_consumer_ready(queue) == queue \in consumeOk
\* The subscriptions of one kind made so far.
Subscribed(kind) ==
  {i \in 1 .. Len(subscriptions) : subscriptions[i].kind = kind}

enable_rpc_server(rpc_queue_name, rpc_request_callback) ==
  IF Truthy(requestQueueName)
  THEN UNCHANGED <<requestQueueName, rpcRequestCallback, subscriptions>>
  ELSE /\ requestQueueName' = rpc_queue_name
       /\ rpcRequestCallback' = rpc_request_callback
       /\ rpc_server(rpc_queue_name)

EnableRpcServer(q, cb) ==
  /\ serverEnables < MaxEnable
  /\ enable_rpc_server(q, cb)
  /\ serverEnables' = serverEnables + 1
  /\ firstServer' = IF serverEnables = 0
                    THEN [queue |-> q, callback |-> cb] ELSE firstServer
  /\ UNCHANGED <<responseQueueName, pendingRequests, uuids, consumeOk>>
  /\ UNCHANGED <<callVars, replyVars, clientEnables, handled, callbackLog,
                 responseLog>>

is_rpc_server_ready_NameOnly == Truthy(requestQueueName)

is_rpc_server_ready ==
  IF ~Truthy(requestQueueName)
  THEN FALSE
  ELSE is_rpc_consumer_ready(requestQueueName)

\* enable_rpc_client that creates the pending-request map before the guard.
enable_rpc_client_ResetsMap ==
  /\ pendingRequests' = [k \in {} |-> 0]
  /\ IF Truthy(responseQueueName)
     THEN UNCHANGED <<responseQueueName, uuids, subscriptions>>
     ELSE /\ responseQueueName' = <<RPC_REPLY_PREFIX, uuid1>>
          /\ uuids' = uuid1
          /\ rpc_client(<<RPC_REPLY_PREFIX, uuid1>>)

enable_rpc_client ==
  IF Truthy(responseQueueName)
  THEN UNCHANGED <<responseQueueName, pendingRequests, uuids, subscriptions>>
  ELSE /\ pendingRequests' = [k \in {} |-> 0]
       /\ responseQueueName' = <<RPC_REPLY_PREFIX, uuid1>>
       /\ uuids' = uuid1
       /\ rpc_client(<<RPC_REPLY_PREFIX, uuid1>>)

EnableRpcClient ==
  /\ clientEnables < MaxEnable
  /\ enable_rpc_client
  /\ clientEnables' = clientEnables + 1
  /\ UNCHANGED <<requestQueueName, rpcRequestCallback, consumeOk>>
  /\ UNCHANGED <<callVars, replyVars, serverEnables, firstServer, handled,
                 callbackLog, responseLog>>

is_rpc_client_ready ==
  IF ~Truthy(responseQueueName)
  THEN FALSE
  ELSE is_rpc_consumer_ready(responseQueueName)

\* The consumer process reports ConsumeOK for a subscription it was asked for.
ConsumeOk(i) ==
  /\ subscriptions[i].queue \notin consumeOk
  /\ consumeOk' = consumeOk \cup {subscriptions[i].queue}
  /\ UNCHANGED <<requestQueueName, rpcRequestCallback, responseQueueName,
                 pendingRequests, uuids, subscriptions>>
  /\ UNCHANGED <<callVars, replyVars, serverVars>>

\* The _pending_requests attribute exists: enable_rpc_client has created it
\* (it is assigned together with _response_queue_name, lines 118-119).
HasPendingRequests == responseQueueName # NoName
\* rpc_call c has handed its request to the producer.
Requested(c) == callPc[c] \in {"wait", "check", "pop", "return", "done", "failed"}
\* rpc_call c has ended: it returned a value or raised.
Ended(c) == callPc[c] \in {"done", "failed", "raised"}

\* rpc_call lines 152-155: corr_id, the RPCResponse and its registration.
\* Without _pending_requests line 155 raises AttributeError.
RpcCallRegister(c) ==
  /\ callPc[c] = "idle"
  /\ \A d \in Calls : d < c => callPc[d] # "idle"
  /\ uuids' = uuid1
  /\ IF HasPendingRequests
     THEN /\ corrId' = [corrId EXCEPT ![c] = uuid1]
          /\ pendingRequests' = DictUpdate(pendingRequests, uuid1, c)
          /\ callPc' = [callPc EXCEPT ![c] = "request"]
     ELSE /\ callPc' = [callPc EXCEPT ![c] = "raised"]
          /\ UNCHANGED <<corrId, pendingRequests>>
  /\ UNCHANGED <<requestQueueName, rpcRequestCallback, responseQueueName,
                 subscriptions, consumeOk>>
  /\ UNCHANGED <<response, blocker, timedOut, result, replyVars, serverVars>>

\* rpc_call lines 157-160: self._producer.rpc_request(...).
RpcCallRequest(c) ==
  /\ callPc[c] = "request"
  /\ callPc' = [callPc EXCEPT ![c] = "wait"]
  /\ UNCHANGED <<handlerVars, corrId, response, blocker, timedOut, result,
                 replyVars, serverVars>>

\* blocker.wait that returns at once, with the event not set and no timeout.
RpcCallWake_Spurious(c) ==
  /\ callPc[c] = "wait"
  /\ callPc' = [callPc EXCEPT ![c] = "check"]
  /\ UNCHANGED <<handlerVars, corrId, response, blocker, timedOut, result,
                 replyVars, serverVars>>

\* rpc_call line 164: blocker.wait(timeout=2.0) returns because the event is
\* set.
RpcCallWake(c) ==
  /\ callPc[c] = "wait"
  /\ blocker[c]
  /\ callPc' = [callPc EXCEPT ![c] = "check"]
  /\ UNCHANGED <<handlerVars, corrId, response, blocker, timedOut, result,
                 replyVars, serverVars>>

\* rpc_call line 164: blocker.wait(timeout=2.0) returns because 2.0 s have
\* elapsed with the event not set.
RpcCallTimeout(c) ==
  /\ callPc[c] = "wait"
  /\ ~blocker[c]
  /\ timedOut' = [timedOut EXCEPT ![c] = TRUE]
  /\ callPc' = [callPc EXCEPT ![c] = "check"]
  /\ UNCHANGED <<handlerVars, corrId, response, blocker, result, replyVars,
                 serverVars>>

\* rpc_call line 165: if self._pending_requests.get(corr_id).
RpcCallCheck(c) ==
  /\ callPc[c] = "check"
  /\ callPc' = [callPc EXCEPT ![c] =
                  IF DictGet(pendingRequests, corrId[c]) THEN "pop" ELSE "return"]
  /\ UNCHANGED <<handlerVars, corrId, response, blocker, timedOut, result,
                 replyVars, serverVars>>

\* The timeout branch of rpc_call with line 167 left out.
rpc_call_pop_Keeps(c) ==
  /\ callPc' = [callPc EXCEPT ![c] = "return"]
  /\ UNCHANGED <<pendingRequests, removedBy>>

\* rpc_call line 167: self._pending_requests.pop(corr_id); KeyError if the
\* entry has gone since line 165.
rpc_call_pop(c) ==
  IF corrId[c] \in DOMAIN pendingRequests
  THEN /\ pendingRequests' = DictPop(pendingRequests, corrId[c])
       /\ removedBy' = [removedBy EXCEPT ![c] = Append(@, "timeout")]
       /\ callPc' = [callPc EXCEPT ![c] = "return"]
  ELSE /\ callPc' = [callPc EXCEPT ![c] = "failed"]
       /\ UNCHANGED <<pendingRequests, removedBy>>

RpcCallPop(c) ==
  /\ callPc[c] = "pop"
  /\ rpc_call_pop(c)
  /\ UNCHANGED <<requestQueueName, rpcRequestCallback, responseQueueName,
                 uuids, subscriptions, consumeOk>>
  /\ UNCHANGED <<corrId, response, blocker, timedOut, result>>
  /\ UNCHANGED <<handlerPc, handlerSlot, handlerMsg, replies, keyErrors,
                 arrived, serverVars>>

\* rpc_call line 171: return response.response.
rpc_call_return(c) == result' = [result EXCEPT ![c] = response[c]]

RpcCallReturn(c) ==
  /\ callPc[c] = "return"
  /\ rpc_call_return(c)
  /\ callPc' = [callPc EXCEPT ![c] = "done"]
  /\ UNCHANGED <<handlerVars, corrId, response, blocker, timedOut, replyVars,
                 serverVars>>

\* handle_rpc_response lines 208-209: pop the slot of message.correlation_id;
\* KeyError leaves the callback if there is none.
handle_rpc_response_pop(correlation_id, message) ==
  IF correlation_id \in DOMAIN pendingRequests
  THEN /\ pendingRequests' = DictPop(pendingRequests, correlation_id)
       /\ handlerSlot' = pendingRequests[correlation_id]
       /\ handlerMsg' = message
       /\ handlerPc' = "store"
       /\ removedBy' = [removedBy EXCEPT ![pendingRequests[correlation_id]] =
                          Append(@, "response")]
       /\ arrived' = [arrived EXCEPT ![pendingRequests[correlation_id]] =
                        [message |-> message,
                         inTime |-> ~timedOut[pendingRequests[correlation_id]]]]
       /\ UNCHANGED keyErrors
  ELSE /\ keyErrors' = keyErrors + 1
       /\ UNCHANGED <<pendingRequests, handlerSlot, handlerMsg, handlerPc,
                      removedBy, arrived>>

\* A reply arrives on the reply queue: for a request that was sent, or with
\* a correlation id no call of this process has used.
HandleResponsePop(correlation_id, message) ==
  /\ handlerPc = "idle"
  /\ replies < MaxReply
  /\ is_rpc_client_ready
  /\ correlation_id \in {corrId[c] : c \in {d \in Calls : Requested(d)}}
                          \cup {UnknownCorr}
  /\ replies' = replies + 1
  /\ handle_rpc_response_pop(correlation_id, message)
  /\ UNCHANGED <<requestQueueName, rpcRequestCallback, responseQueueName,
                 uuids, subscriptions, consumeOk>>
  /\ UNCHANGED <<callVars, serverVars>>

\* handle_rpc_response line 210: response.response = message.message.
HandleResponseStore ==
  /\ handlerPc = "store"
  /\ response' = [response EXCEPT ![handlerSlot] = handlerMsg]
  /\ handlerPc' = "set"
  /\ UNCHANGED <<handlerVars, callPc, corrId, blocker, timedOut, result>>
  /\ UNCHANGED <<handlerSlot, handlerMsg, replies, keyErrors, removedBy,
                 arrived, serverVars>>

\* handle_rpc_response line 211: response.blocker.set().
HandleResponseSet ==
  /\ handlerPc = "set"
  /\ blocker' = [blocker EXCEPT ![handlerSlot] = TRUE]
  /\ handlerPc' = "idle"
  /\ UNCHANGED <<handlerVars, callPc, corrId, response, timedOut, result>>
  /\ UNCHANGED <<handlerSlot, handlerMsg, replies, keyErrors, removedBy,
                 arrived, serverVars>>

\* The request messages the remote clients send: each has its own payload,
\* reply queue and correlation id.
Request(r) ==
  [message |-> <<"ping", r>>,
   reply_to |-> <<RPC_REPLY_PREFIX, "remote", r>>,
   correlation_id |-> <<"corr", r>>]
\* The value callback cb returns for a payload.
Return(cb, payload) == <<cb, payload>>

\* RMQProducer.rpc_response: one response is handed to the producer.
rpc_response(reply_to, answer, correlation_id) ==
  responseLog' = Append(responseLog,
                        [reply_to |-> reply_to, message |-> answer,
                         correlation_id |-> correlation_id])

\* handle_rpc_request that answers to the reply queue without the
\* correlation id of the request.
handle_rpc_request_NoCorrelationId(message) ==
  /\ callbackLog' = Append(callbackLog, [callback |-> rpcRequestCallback,
                                         arg |-> message.message])
  /\ rpc_response(message.reply_to,
                  Return(rpcRequestCallback, message.message), <<"corr", 0>>)

handle_rpc_request(message) ==
  /\ callbackLog' = Append(callbackLog, [callback |-> rpcRequestCallback,
                                         arg |-> message.message])
  /\ rpc_response(message.reply_to,
                  Return(rpcRequestCallback, message.message),
                  message.correlation_id)

\* The consumer delivers the next request of the request queue.
HandleRpcRequest(r) ==
  /\ r = Len(handled) + 1
  /\ \E i \in Subscribed("rpc_server") : is_rpc_consumer_ready(subscriptions[i].queue)
  /\ handled' = Append(handled, r)
  /\ handle_rpc_request(Request(r))
  /\ UNCHANGED <<handlerVars, callVars, replyVars, serverEnables, firstServer,
                 clientEnables>>

\* The RPC handler runs in the controlling process; the connection process
\* of the consumer it subscribes through stays in its initial state.
InitRpc == Init /\ role = "consumer"

\* The client side of the handler: enable_rpc_client, rpc_call and
\* handle_rpc_response.
NextRpcClient ==
  \/ EnableRpcClient /\ UNCHANGED <<connVars, facadeVars, consumed, pendingAtDisconnect>>
  \/ (\E i \in 1 .. Len(subscriptions) : ConsumeOk(i)) /\ UNCHANGED <<connVars, facadeVars, consumed, pendingAtDisconnect>>
  \/ (\E c \in Calls : RpcCallRegister(c)) /\ UNCHANGED <<connVars, facadeVars, consumed, pendingAtDisconnect>>
  \/ (\E c \in Calls : RpcCallRequest(c)) /\ UNCHANGED <<connVars, facadeVars, consumed, pendingAtDisconnect>>
  \/ (\E c \in Calls : RpcCallWake(c)) /\ UNCHANGED <<connVars, facadeVars, consumed, pendingAtDisconnect>>
  \/ (\E c \in Calls : RpcCallTimeout(c)) /\ UNCHANGED <<connVars, facadeVars, consumed, pendingAtDisconnect>>
  \/ (\E c \in Calls : RpcCallCheck(c)) /\ UNCHANGED <<connVars, facadeVars, consumed, pendingAtDisconnect>>
  \/ (\E c \in Calls : RpcCallPop(c)) /\ UNCHANGED <<connVars, facadeVars, consumed, pendingAtDisconnect>>
  \/ (\E c \in Calls : RpcCallReturn(c)) /\ UNCHANGED <<connVars, facadeVars, consumed, pendingAtDisconnect>>
  \/ (\E corr \in 0 .. uuids, m \in Payloads : HandleResponsePop(corr, m)) /\ UNCHANGED <<connVars, facadeVars, consumed, pendingAtDisconnect>>
  \/ HandleResponseStore /\ UNCHANGED <<connVars, facadeVars, consumed, pendingAtDisconnect>>
  \/ HandleResponseSet /\ UNCHANGED <<connVars, facadeVars, consumed, pendingAtDisconnect>>

SpecRpcClient == InitRpc /\ [][NextRpcClient]_vars

\* A step of rpc_call c after its registration.  The calling thread is
\* scheduled again and again, and blocker.wait(timeout=2.0) returns when the
\* event is set or when the 2.0 s have elapsed.
RpcCallStep(c) ==
  /\ \/ RpcCallRequest(c)
     \/ RpcCallWake(c)
     \/ RpcCallTimeout(c)
     \/ RpcCallCheck(c)
     \/ RpcCallPop(c)
     \/ RpcCallReturn(c)
  /\ UNCHANGED <<connVars, facadeVars, consumed, pendingAtDisconnect>>
\* A step of handle_rpc_response after its pop: the consumer's thread runs
\* the callback to its end.
HandleResponseStep ==
  /\ HandleResponseStore \/ HandleResponseSet
  /\ UNCHANGED <<connVars, facadeVars, consumed, pendingAtDisconnect>>
RpcClientFairness ==
  /\ \A c \in Calls : WF_vars(RpcCallStep(c))
  /\ WF_vars(HandleResponseStep)
SpecRpcClientFair == SpecRpcClient /\ RpcClientFairness

\* The server side of the handler: enable_rpc_server and handle_rpc_request.
NextRpcServer ==
  \/ (\E q \in QueueNames, cb \in Callbacks : EnableRpcServer(q, cb)) /\ UNCHANGED <<connVars, facadeVars, consumed, pendingAtDisconnect>>
  \/ (\E i \in 1 .. Len(subscriptions) : ConsumeOk(i)) /\ UNCHANGED <<connVars, facadeVars, consumed, pendingAtDisconnect>>
  \/ (\E r \in Requests : HandleRpcRequest(r)) /\ UNCHANGED <<connVars, facadeVars, consumed, pendingAtDisconnect>>

SpecRpcServer == InitRpc /\ [][NextRpcServer]_vars

\* Registration and readiness of both sides.
NextRpcReady ==
  \/ (\E q \in QueueNames, cb \in Callbacks : EnableRpcServer(q, cb)) /\ UNCHANGED <<connVars, facadeVars, consumed, pendingAtDisconnect>>
  \/ EnableRpcClient /\ UNCHANGED <<connVars, facadeVars, consumed, pendingAtDisconnect>>
  \/ (\E i \in 1 .. Len(subscriptions) : ConsumeOk(i)) /\ UNCHANGED <<connVars, facadeVars, consumed, pendingAtDisconnect>>

SpecRpcReady == InitRpc /\ [][NextRpcReady]_vars


\* ------------------------------------------------ confirm-mode observer
\* RMQProducer of the API exercised by tests/test_integration.py:
\* activate_confirm_mode(notify_callback), publish(...) returning a publish
\* key, start(), _buffered_messages and _unacked_publishes.

\* The publish keys publish() returns, one per call.
Keys == 1 .. NumKeys
\* What the observer is called with: a ConfirmModeOK, or a publish key.
ConfirmModeOK == [type |-> "ConfirmModeOK", key |-> NoPub]
Confirmed(key) == [type |-> "publish_key", key |-> key]
\* The producer sends what it is given: it is started and no Confirm.Select
\* is outstanding.
ProducerReady == producerStarted /\ confirmMode \in {"off", "on"}

\* One message goes to the channel; in confirm mode it is recorded under the
\* next delivery tag.
send(key) ==
  IF confirmMode = "on"
  THEN /\ deliveryTag' = deliveryTag + 1
       /\ unackedPublishes' = Update(unackedPublishes, deliveryTag + 1, key)
       /\ tracked' = tracked \cup {key}
  ELSE UNCHANGED <<deliveryTag, unackedPublishes, tracked>>

\* RMQProducer.start().
ProducerStart ==
  /\ ~producerStarted
  /\ producerStarted' = TRUE
  /\ confirmMode' = IF confirmMode = "requested" THEN "selecting" ELSE confirmMode
  /\ UNCHANGED <<bufferedMessages, unackedPublishes, publishKeys, deliveryTag,
                 tracked, confirmLog>>

\* RMQProducer.activate_confirm_mode(on_confirm).
ActivateConfirmMode ==
  /\ confirmMode = "off"
  /\ confirmMode' = IF producerStarted THEN "selecting" ELSE "requested"
  /\ UNCHANGED <<producerStarted, bufferedMessages, unackedPublishes,
                 publishKeys, deliveryTag, tracked, confirmLog>>

\* Confirm.SelectOk from the broker: the observer gets ConfirmModeOK.
ConfirmSelectOk ==
  /\ confirmMode = "selecting"
  /\ confirmMode' = "on"
  /\ confirmLog' = Append(confirmLog, ConfirmModeOK)
  /\ UNCHANGED <<producerStarted, bufferedMessages, unackedPublishes,
                 publishKeys, deliveryTag, tracked>>

\* RMQProducer.publish(...): returns publish key p; the message is sent, or
\* buffered while the producer is not ready.
ProducerPublish(p) ==
  /\ p \notin publishKeys
  /\ \A q \in Keys : q < p => q \in publishKeys
  /\ publishKeys' = publishKeys \cup {p}
  /\ IF ProducerReady
     THEN send(p) /\ UNCHANGED bufferedMessages
     ELSE /\ bufferedMessages' = Append(bufferedMessages, p)
          /\ UNCHANGED <<deliveryTag, unackedPublishes, tracked>>
  /\ UNCHANGED <<producerStarted, confirmMode, confirmLog>>

\* The producer has become ready and sends a buffered message.
SendBuffered ==
  /\ ProducerReady
  /\ bufferedMessages # << >>
  /\ send(Head(bufferedMessages))
  /\ bufferedMessages' = Tail(bufferedMessages)
  /\ UNCHANGED <<producerStarted, confirmMode, publishKeys, confirmLog>>

\* A Basic.Ack handler that notifies the observer and keeps the entry.
on_ack_KeepsEntry(tag) ==
  /\ confirmLog' = Append(confirmLog, Confirmed(unackedPublishes[tag]))
  /\ UNCHANGED unackedPublishes

\* Basic.Ack for a tag: the entry leaves _unacked_publishes and the observer
\* gets its publish key.
on_ack(tag) ==
  /\ unackedPublishes' = Pop(unackedPublishes, tag)
  /\ confirmLog' = Append(confirmLog, Confirmed(unackedPublishes[tag]))

BrokerAck(tag) ==
  /\ tag \in DOMAIN unackedPublishes
  /\ on_ack(tag)
  /\ UNCHANGED <<producerStarted, confirmMode, bufferedMessages, publishKeys,
                 deliveryTag, tracked>>

NextConfirm ==
  \/ ProducerStart /\ UNCHANGED <<connVars, rpcVars, consumed, pendingAtDisconnect>>
  \/ ActivateConfirmMode /\ UNCHANGED <<connVars, rpcVars, consumed, pendingAtDisconnect>>
  \/ ConfirmSelectOk /\ UNCHANGED <<connVars, rpcVars, consumed, pendingAtDisconnect>>
  \/ (\E p \in Keys : ProducerPublish(p)) /\ UNCHANGED <<connVars, rpcVars, consumed, pendingAtDisconnect>>
  \/ SendBuffered /\ UNCHANGED <<connVars, rpcVars, consumed, pendingAtDisconnect>>
  \/ (\E tag \in 1 .. deliveryTag : BrokerAck(tag)) /\ UNCHANGED <<connVars, rpcVars, consumed, pendingAtDisconnect>>

\* The facade runs in the controlling process; its producer connection
\* process stays in its initial state.
InitConfirm == Init /\ role = "producer"
SpecConfirm == InitConfirm /\ [][NextConfirm]_vars


\* ------------------------------------------------------ subscription key
\* RMQConsumer.consume of the API exercised by tests/test_integration.py
\* returns the key of the subscription.

\* The parameters the tests subscribe with; NoName is a parameter left out.
ConsumeQueues == {NoName, <<"queue">>, <<"queue_fanout_receiver">>}
ConsumeExchanges == {NoName, <<"exchange">>, <<"exchange_fanout">>}
ConsumeRoutingKeys == {NoName, <<"bla.bla">>, <<"fish">>}

\* key + "|" + item, or item alone at the start; a parameter left out adds
\* nothing.
AddPart(key, item) ==
  IF ~Truthy(item) THEN key
  ELSE IF key = << >> THEN item
  ELSE key \o <<"|">> \o item

\* A key that names the exchange before the queue.
consume_key_ExchangeFirst(queue, exchange, routing_key) ==
  AddPart(AddPart(AddPart(<< >>, exchange), queue), routing_key)

\* The subscription key of a topology: the queue, the exchange and the
\* routing key that are present, in this order, joined by "|".
consume_key(queue, exchange, routing_key) ==
  AddPart(AddPart(AddPart(<< >>, queue), exchange), routing_key)

\* RMQConsumer.consume(..., queue_params, exchange_params, routing_key).
Consume(queue, exchange, routing_key) ==
  /\ Len(consumed) < MaxConsume
  /\ Truthy(queue) \/ Truthy(exchange)
  /\ consumed' = Append(consumed,
                        [queue |-> queue, exchange |-> exchange,
                         routing_key |-> routing_key,
                         key |-> consume_key(queue, exchange, routing_key)])

NextConsume ==
  \E q \in ConsumeQueues, e \in ConsumeExchanges, rk \in ConsumeRoutingKeys :
    Consume(q, e, rk)
      /\ UNCHANGED <<connVars, rpcVars, facadeVars, pendingAtDisconnect>>

\* consume is called in the controlling process; the consumer connection
\* process stays in its initial state.
InitConsume == Init /\ role = "consumer"
SpecConsume == InitConsume /\ [][NextConsume]_vars


\* ------------------------------------------------------------ properties

\* Thread t is inside publish() and has not yet called attempt().
BeforeRecord(t) == pc[t] \in {"load", "store", "record"}
\* No thread is inside publish().
Quiescent == \A t \in Threads : pc[t] \notin {"load", "store", "record", "send"}
\* Publish p is held nowhere in the connection process.
Gone(p) ==
  /\ p \notin SeqRange(workQueue)
  /\ p \notin SeqRange(declareQ)
  /\ p \notin Range(pendingConfirm)
  /\ \A t \in Threads : cur[t] # p
\* This step runs a signal handler.
SignalStep == \E sig \in Signals : Signal(sig)
\* This step handles a Basic.Nack for delivery tag tag, which has an entry.
NackStep(tag) ==
  /\ tag \in unconfirmed
  /\ tag \notin unconfirmed'
  /\ tag \in DOMAIN pendingConfirm
  /\ NacksSent' = NacksSent + 1

\* What holds of every Publish in every state, and across every step.
C1_State ==
  \A p \in Pubs :
    /\ sentCount[p] <= attempts[p]
    /\ attempts[p] <= MAX_ATTEMPTS + 1
    /\ (p \in SeqRange(declareQ)) => attempts[p] <= MAX_ATTEMPTS
    /\ \A t \in Threads :
         (cur[t] = p /\ BeforeRecord(t)) => attempts[p] <= MAX_ATTEMPTS
    /\ dropped[p] => (attempts[p] > MAX_ATTEMPTS /\ Gone(p))
C1_Step ==
  \A p \in Pubs :
    /\ attempts'[p] >= attempts[p]
    /\ sentCount'[p] # sentCount[p] =>
         (sentCount'[p] = sentCount[p] + 1 /\ attempts[p] >= sentCount'[p])
    /\ dropped[p] =>
         (dropped'[p] /\ sentCount'[p] = sentCount[p]
                      /\ resubmits'[p] = resubmits[p]
                      /\ attempts'[p] = attempts[p])
\* C1: the attempt counter of a Publish only grows and every basic_publish of
\* it follows an increment of its own (the k-th send is made with attempts
\* >= k); handle_publish lets a Publish with attempts > MAX_ATTEMPTS neither
\* into exchange_declare nor into publish(), and once it has dropped a Publish
\* that Publish is held nowhere, is never sent and never put on the work queue
\* again, whatever acks and nacks arrive.
C1_AttemptsGrowDropIsTerminal == [](C1_State) /\ [][C1_Step]_vars
\* A Publish has been dropped after MAX_ATTEMPTS + 1 sends while the other
\* one is still in flight.
C1_Witness ==
  \E p \in Pubs :
    /\ dropped[p]
    /\ sentCount[p] = MAX_ATTEMPTS + 1
    /\ \E q \in Pubs : q # p /\ q \in Range(pendingConfirm)

\* The effect of a step that handles a Basic.Nack.
C2_Step ==
  \A tag \in DOMAIN pendingConfirm :
    NackStep(tag) =>
      /\ DOMAIN pendingConfirm' = DOMAIN pendingConfirm \ {tag}
      /\ \A k \in DOMAIN pendingConfirm' : pendingConfirm'[k] = pendingConfirm[k]
      /\ workQueue' = workQueue \o <<pendingConfirm[tag]>>
      /\ resubmits' = [resubmits EXCEPT ![pendingConfirm[tag]] = @ + 1]
\* C2: a Basic.Nack for a tag T that has an entry removes the entry of T and
\* no other, leaves every other entry as it was, and appends the Publish of T
\* to the work queue once.
C2_NackRemovesOneResubmitsOnce == [][C2_Step]_vars
\* A nacked Publish is back on the work queue while another entry is pending.
C2_Witness ==
  \E p \in Pubs :
    /\ nacks[p] = 1
    /\ resubmits[p] = 1
    /\ p \in SeqRange(workQueue)
    /\ p \notin Range(pendingConfirm)
    /\ DOMAIN pendingConfirm # {}

\* C3: while the connection is usable and no thread is inside publish(), the
\* keys of the PendingConfirm map are the delivery tags of the messages sent
\* with basic_publish and not yet acked or nacked.
C3_PendingIffSentUnconfirmed ==
  (Alive /\ ChannelUsable /\ Quiescent) => DOMAIN pendingConfirm = unconfirmed

\* C4: the tags publish() records are unique and strictly increasing, the
\* first one being 1.
C4_TagsUniqueIncreasingFromOne ==
  /\ recorded # <<>> => recorded[1] = 1
  /\ \A i, j \in 1 .. Len(recorded) : i < j => recorded[i] < recorded[j]

\* C5: a SIGINT or SIGTERM received while the connection is open makes the
\* connection (producer or consumer) request the transport close and go from
\* Open to Closing.
C5_SignalStartsClose ==
  [][(SignalStep /\ transport = "open") =>
       (closeRequests' = closeRequests + 1 /\ transport' = "closing")]_vars

\* The effect of a step that runs disconnect(), and the close count.
C6_Step ==
  (Disconnect \/ SignalStep) =>
    IF closing
      THEN UNCHANGED <<closing, closeRequests, transport, loopRunning, loopStops>>
      ELSE /\ closing'
           /\ (Disconnect \/ role = "consumer") =>
                closeRequests' = closeRequests + 1
C6_State ==
  /\ closeRequests <= 1
  /\ closeRequests = 1 => closing
  /\ role = "consumer" => (closing <=> closeRequests = 1)
  /\ alreadyClosing => closing
\* C6: a disconnect() call entered with the closing flag unset sets the flag
\* and requests the transport close; a call entered with the flag set changes
\* nothing of the connection; the close is never requested twice, and on a
\* connection whose flag only disconnect() sets (the consumer connection) it
\* has been requested exactly once as soon as disconnect() has been called.
C6_DisconnectIdempotent == [](C6_State) /\ [][C6_Step]_vars
\* disconnect() has been called again on a closing consumer connection.
C6_Witness ==
  /\ role = "consumer"
  /\ alreadyClosing
  /\ closing
  /\ closeRequests = 1

\* The steps that stop the loop, and the stop count.
C7_Step ==
  /\ loopStops' # loopStops =>
       (loopStops' = loopStops + 1 /\ transport # "closed" /\ transport' = "closed")
  /\ (Disconnect \/ SignalStep) => UNCHANGED <<loopStops, loopRunning>>
  /\ (loopRunning /\ ~loopRunning') => loopStops' = loopStops + 1
C7_State ==
  /\ loopStops <= 1
  /\ loopStops = 1 => (transport = "closed" /\ ~loopRunning)
  /\ (role = "consumer" /\ transport = "closed") => loopStops = 1
\* C7: ioloop.stop() is called only in the step that delivers the
\* connection-closed notification, never in a step that runs disconnect(),
\* and never twice; the consumer connection, whose on_connection_closed is
\* the callback at hand, has stopped the loop exactly once when closed.
C7_LoopStoppedOnlyOnClosed == [](C7_State) /\ [][C7_Step]_vars
\* A consumer connection closed after disconnect(): the loop was stopped once.
C7_Witness ==
  /\ role = "consumer"
  /\ closing
  /\ closeRequests = 1
  /\ transport = "closed"
  /\ loopStops = 1
  /\ ~loopRunning

\* C8: once the transport has reported the connection closed, the event loop
\* has been stopped (producer and consumer connection alike).
C8_ClosedStopsLoop ==
  transport = "closed" => (loopStops = 1 /\ ~loopRunning)

\* The number of times publish() has been entered for Publish p.
PublishEntries(p) ==
  attempts[p] + Cardinality({t \in Threads : cur[t] = p /\ BeforeRecord(t)})
\* C9: a Publish with reply_to or correlation_id is never the subject of an
\* exchange_declare; any other Publish enters publish(), and is sent, only
\* from the exchange-declared callback of a declaration made for it: it has
\* entered publish() at most as often as declarations of it have completed.
C9_DeclareBeforePublish ==
  \A p \in Pubs :
    IF HasReplyToOrCorrelationId(p)
      THEN declaresIssued[p] = 0 /\ declaresDone[p] = 0
           /\ p \notin SeqRange(declareQ)
      ELSE /\ sentCount[p] <= declaresDone[p]
           /\ PublishEntries(p) <= declaresDone[p]
           /\ declaresDone[p] <= declaresIssued[p]
           /\ cur["worker"] # p
\* Both kinds have been sent: the RPC Publish with no declaration at all, the
\* plain one after its declaration completed.
C9_Witness ==
  \E p, q \in Pubs :
    /\ HasReplyToOrCorrelationId(p) /\ sentCount[p] >= 1 /\ declaresIssued[p] = 0
    /\ ~HasReplyToOrCorrelationId(q) /\ sentCount[q] = 1 /\ declaresDone[q] = 1

\* C10: with MAX_ATTEMPTS = 3, a Publish for which two nacks and then an ack
\* were handled has been put back on the work queue exactly twice, has made
\* three attempts, has no PendingConfirm entry, is not on the work queue and
\* was not dropped; when it is the only Publish submitted (the scenario of
\* the claim) it has been sent exactly three times and is held nowhere.  No
\* Publish is dropped after two nacks or fewer, and none is acked twice.
C10_TwoNacksThenAck ==
  \A p \in Pubs :
    /\ (nacks[p] = 2 /\ acks[p] = 1) =>
         /\ resubmits[p] = 2
         /\ attempts[p] = 3
         /\ ~dropped[p]
         /\ p \notin Range(pendingConfirm)
         /\ p \notin SeqRange(workQueue)
         /\ p \notin SeqRange(declareQ)
    /\ (submitted = {p} /\ nacks[p] = 2 /\ acks[p] = 1) =>
         (sentCount[p] = 3 /\ Gone(p))
    /\ nacks[p] <= 2 => ~dropped[p]
    /\ acks[p] <= 1
\* The only Publish submitted was nacked on its first and second send and
\* acked on its third.
C10_Witness ==
  \E p \in Pubs :
    /\ submitted = {p}
    /\ nacks[p] = 2
    /\ acks[p] = 1
    /\ sentCount[p] = 3
    /\ resubmits[p] = 2


\* ------------------------------------------------- properties: RPC handler

\* rpc_call c has registered a response slot.
Registered(c) == corrId[c] # UnknownCorr
\* The entries of the pending-request map that hold the slot of rpc_call c.
SlotsOf(c) == {k \in DOMAIN pendingRequests : pendingRequests[k] = c}

\* C11: the slot of every rpc_call is removed from the pending-request map
\* at most once at any time and exactly once when the call has ended, by
\* handle_rpc_response or by the timeout branch of rpc_call (taken only
\* after the wait timed out), never by both; and a correlation id has at
\* most one slot: distinct calls have distinct ids and a call's slot is
\* stored under its own id only, until it is removed.
C11_SlotRemovedExactlyOnce ==
  \A c \in Calls :
    /\ Len(removedBy[c]) <= 1
    /\ Registered(c) /\ Ended(c) => Len(removedBy[c]) = 1
    /\ removedBy[c] = <<"timeout">> => timedOut[c]
    /\ Registered(c) =>
         SlotsOf(c) = IF removedBy[c] = << >> THEN {corrId[c]} ELSE {}
    /\ \A d \in Calls : Registered(c) /\ Registered(d) /\ c # d
                           => corrId[c] # corrId[d]
\* A call timed out and its response arrived between its check and its
\* pop, while another call was removed by its own timeout branch.
C11_Witness ==
  \E c, d \in Calls :
    /\ callPc[c] = "failed" /\ removedBy[c] = <<"response">> /\ timedOut[c]
    /\ callPc[d] = "done" /\ removedBy[d] = <<"timeout">>

\* C12: a reply whose correlation id has no entry in the pending-request
\* map is discarded by handle_rpc_response without raising an error.
C12_UnknownReplyRaisesNothing == keyErrors = 0

\* rpc_call c has got past blocker.wait.
PastWait(c) == callPc[c] \in {"check", "pop", "return", "done", "failed"}
\* handle_rpc_response has taken the slot of rpc_call c.
Answered(c) == removedBy[c] = <<"response">>

\* C13: an rpc_call whose slot no response has taken gets past its wait only
\* by the timeout, never raises, returns RPC_DEFAULT_REPLY, and its
\* correlation id is not a key of the pending-request map once it has
\* returned.
C13_NoResponseReturnsDefaultAfterTimeout ==
  \A c \in Calls :
    Registered(c) /\ ~Answered(c) =>
      /\ PastWait(c) => timedOut[c]
      /\ callPc[c] # "failed"
      /\ callPc[c] = "done" =>
           /\ result[c] = RPC_DEFAULT_REPLY
           /\ corrId[c] \notin DOMAIN pendingRequests
\* A call has returned although no reply was ever delivered.
C13_Witness ==
  \E c \in Calls :
    /\ callPc[c] = "done" /\ replies = 0
    /\ result[c] = RPC_DEFAULT_REPLY /\ timedOut[c]
    /\ removedBy[c] = <<"timeout">>

\* C14: an rpc_call whose slot was taken by a reply carrying its correlation
\* id before its wait timed out returns the payload of that reply.
C14_ResponseInTimeIsReturned ==
  \A c \in Calls :
    arrived[c].inTime /\ callPc[c] = "done" => result[c] = arrived[c].message

\* C15: once enable_rpc_server has been called, the request queue name and
\* the callback are those of the first call and the consumer has been asked
\* for one rpc_server subscription, however many calls follow.
C15_SecondEnableServerIsNoOp ==
  serverEnables >= 1 =>
    /\ requestQueueName = firstServer.queue
    /\ rpcRequestCallback = firstServer.callback
    /\ Cardinality(Subscribed("rpc_server")) = 1

\* After the first enable_rpc_client: one reply queue, named by the prefix
\* and a token no correlation id shares, and one subscription, to it.
C16_State ==
  clientEnables >= 1 =>
    /\ Len(responseQueueName) = 2
    /\ responseQueueName[1] = RPC_REPLY_PREFIX
    /\ \A c \in Calls : Registered(c) => corrId[c] # responseQueueName[2]
    /\ Cardinality(Subscribed("rpc_client")) = 1
    /\ \A i \in Subscribed("rpc_client") :
         subscriptions[i].queue = responseQueueName
\* A later enable_rpc_client changes nothing of the handler.
C16_Step ==
  EnableRpcClient /\ clientEnables >= 1 =>
    UNCHANGED <<responseQueueName, pendingRequests, subscriptions, uuids>>

\* C16: the first enable_rpc_client creates one reply queue named
\* RPC_REPLY_PREFIX followed by a fresh token and subscribes to it once;
\* every later call leaves the reply queue name, the pending-request map
\* with the entries of outstanding calls, and the subscriptions unchanged.
C16_EnableClientIdempotent == [](C16_State) /\ [][C16_Step]_vars
\* enable_rpc_client has been called again while an rpc_call is outstanding.
C16_Witness ==
  /\ clientEnables >= 2
  /\ \E c \in Calls : callPc[c] = "wait" /\ corrId[c] \in DOMAIN pendingRequests

\* The consumer has reported ConsumeOK for a subscription of this kind to
\* this queue.
Consuming(kind, queue) ==
  \E i \in Subscribed(kind) :
    subscriptions[i].queue = queue /\ queue \in consumeOk

\* C17: is_rpc_server_ready (is_rpc_client_ready) is true only in states in
\* which enable_rpc_server (enable_rpc_client) has been called and has set
\* the queue name, and the consumer has reported the subscription to that
\* queue ready; in every other state it is false.
C17_ReadyOnlyWhenNamedAndConsuming ==
  /\ is_rpc_server_ready =>
       /\ serverEnables >= 1
       /\ requestQueueName # NoName
       /\ Consuming("rpc_server", requestQueueName)
  /\ is_rpc_client_ready =>
       /\ clientEnables >= 1
       /\ responseQueueName # NoName
       /\ Consuming("rpc_client", responseQueueName)
\* The server side is ready while the client side, enabled but without its
\* ConsumeOK, is not.
C17_Witness ==
  /\ is_rpc_server_ready
  /\ responseQueueName # NoName
  /\ ~is_rpc_client_ready

\* Every request delivered so far has one callback invocation and one
\* response, in the order of delivery, with the fields of that request.
C18_State ==
  /\ Len(callbackLog) = Len(handled)
  /\ Len(responseLog) = Len(handled)
  /\ \A i \in 1 .. Len(handled) :
       /\ callbackLog[i].callback \in Callbacks
       /\ callbackLog[i].arg = Request(handled[i]).message
       /\ responseLog[i].reply_to = Request(handled[i]).reply_to
       /\ responseLog[i].correlation_id = Request(handled[i]).correlation_id
       /\ responseLog[i].message =
            Return(callbackLog[i].callback, Request(handled[i]).message)
\* The callback invoked for a request is the one registered at that moment.
C18_Step ==
  (\E r \in Requests : HandleRpcRequest(r)) =>
    callbackLog'[Len(callbackLog')].callback = rpcRequestCallback

\* C18: for every request delivered to handle_rpc_request the registered
\* callback is invoked once with the request payload, and one response is
\* published to the request's reply_to with the callback's return value and
\* the request's correlation id.
C18_RequestAnsweredOnce == [](C18_State) /\ [][C18_Step]_vars
\* Two requests with different reply queues and correlation ids were served.
C18_Witness ==
  /\ Len(responseLog) >= 2
  /\ responseLog[1].reply_to # responseLog[2].reply_to
  /\ responseLog[1].correlation_id # responseLog[2].correlation_id

\* ---------------------------------------- properties: confirm-mode observer

\* The publish keys the observer has been called with.
Notified == {confirmLog[i].key : i \in {j \in 1 .. Len(confirmLog) :
                                          confirmLog[j].type = "publish_key"}}

Has(x) == x # NoName
Bar == <<"|">>

\* C20: the key consume returns is determined by the queue, the exchange
\* and the routing key that are present: "<queue>" for a queue alone,
\* "<exchange>" for an exchange alone, "<exchange>|<routing_key>",
\* "<queue>|<exchange>" and "<queue>|<exchange>|<routing_key>" for the
\* combinations; two consume calls with the same topology return the same
\* key.
C20_SubscriptionKeyForms ==
  \A i \in 1 .. Len(consumed) :
    LET c == consumed[i]
        q == c.queue
        e == c.exchange
        rk == c.routing_key
    IN /\ Has(q) /\ ~Has(e) /\ ~Has(rk) => c.key = q
       /\ ~Has(q) /\ Has(e) /\ ~Has(rk) => c.key = e
       /\ ~Has(q) /\ Has(e) /\ Has(rk) => c.key = e \o Bar \o rk
       /\ Has(q) /\ Has(e) /\ ~Has(rk) => c.key = q \o Bar \o e
       /\ Has(q) /\ Has(e) /\ Has(rk) => c.key = q \o Bar \o e \o Bar \o rk
       /\ \A j \in 1 .. Len(consumed) :
            /\ consumed[j].queue = q
            /\ consumed[j].exchange = e
            /\ consumed[j].routing_key = rk
            => consumed[j].key = c.key
\* The subscriptions of two of the tests, with the keys the tests expect.
C20_Witness ==
  /\ Len(consumed) >= 2
  /\ consumed[1] = [queue |-> NoName, exchange |-> <<"exchange">>,
                    routing_key |-> <<"bla.bla">>,
                    key |-> <<"exchange", "|", "bla.bla">>]
  /\ consumed[2] = [queue |-> <<"queue_fanout_receiver">>,
                    exchange |-> <<"exchange_fanout">>,
                    routing_key |-> NoName,
                    key |-> <<"queue_fanout_receiver", "|", "exchange_fanout">>]

\* -------------------------------- properties: worker thread and event loop

\* Thread t is executing publish().
InPublish(t) == pc[t] \in {"load", "store", "record", "send"}

\* C21: publish() is never executing in the worker thread and in the event
\* loop at the same time, the worker handing every command over to the loop.
C21_WorkerHandsOffToLoop ==
  ~(InPublish("worker") /\ InPublish("loop"))

\* C22: the Publish sent by the T-th basic_publish on the channel is the one
\* publish() has recorded in the PendingConfirm map under tag T.
C22_TagOrderIsSendOrder ==
  [][\A t \in Threads :
       (PublishSend(t) /\ ChannelUsable) =>
         /\ brokerSeq + 1 \in DOMAIN pendingConfirm
         /\ pendingConfirm[brokerSeq + 1] = cur[t]]_vars

\* Nothing has been taken from the work queue: every Publish submitted is
\* still on it, untouched.
NothingTaken ==
  /\ Len(workQueue) = Cardinality(submitted)
  /\ \A p \in Pubs :
       attempts[p] = 0 /\ declaresIssued[p] = 0 /\ sentCount[p] = 0
       /\ ~dropped[p]
\* The open sequence of the producer connection, one callback after another.
C23_State ==
  role = "producer" =>
    /\ workerStarts = (IF phase = "ready" THEN 1 ELSE 0)
    /\ phase # "ready" => (pc["worker"] = "none" /\ NothingTaken)
C23_Step ==
  role = "producer" =>
    /\ phase' # phase =>
         <<phase, phase'>> \in {<<"init", "channel_opening">>,
                                <<"channel_opening", "confirm_activating">>,
                                <<"confirm_activating", "ready">>}
    /\ workerStarts' # workerStarts =>
         (OnConfirmModeActivated /\ workerStarts = 0 /\ workerStarts' = 1)
    /\ MonitorWorkQueue => phase = "ready"

\* C23: the producer connection goes through connection-open, channel-open
\* and confirm-mode-activated in this order; the work-queue monitor is
\* started by the confirm-mode-activated callback and by nothing else, once;
\* until then no Publish has been taken from the work queue.
C23_WorkerStartsAfterConfirmMode == [](C23_State) /\ [][C23_Step]_vars
\* A Publish submitted before the connection was open has been taken by the
\* worker of the Ready producer connection.
C23_Witness ==
  /\ role = "producer"
  /\ phase = "ready"
  /\ workerStarts = 1
  /\ \E p \in Pubs : attempts[p] = 1 /\ sentCount[p] = 1

\* -------------------------------------------- properties: acks and lost tags

\* Basic.Ack frames handled so far.
AcksSent == Sum(acks, Pubs)
\* This step handles a Basic.Ack for delivery tag tag, which has an entry.
AckStep(tag) ==
  /\ tag \in unconfirmed
  /\ tag \notin unconfirmed'
  /\ tag \in DOMAIN pendingConfirm
  /\ AcksSent' = AcksSent + 1
\* The effect of a step that handles a Basic.Ack.
C24_Step ==
  \A tag \in DOMAIN pendingConfirm :
    AckStep(tag) =>
      /\ DOMAIN pendingConfirm' = DOMAIN pendingConfirm \ {tag}
      /\ \A k \in DOMAIN pendingConfirm' : pendingConfirm'[k] = pendingConfirm[k]
      /\ workQueue' = workQueue
      /\ resubmits' = resubmits
\* C24: a Basic.Ack for a tag N that has an entry removes the entry of N and
\* no other, the entries of smaller tags included, and puts nothing on the
\* work queue.
C24_AckRemovesOnlyItsEntry == [][C24_Step]_vars
\* Tag N has been acked while a smaller tag, sent and not yet confirmed, still
\* has its entry.
C24_Witness ==
  /\ NacksSent = 0
  /\ AcksSent = 1
  /\ \E k \in DOMAIN pendingConfirm :
       /\ k \in unconfirmed
       /\ \E n \in 1 .. brokerSeq :
            n > k /\ n \notin unconfirmed /\ n \notin DOMAIN pendingConfirm

\* This step handles a confirmation for delivery tag tag, which has no entry.
LostTagStep(tag) ==
  /\ tag \in unconfirmed
  /\ tag \notin unconfirmed'
  /\ tag \notin DOMAIN pendingConfirm
\* C25: a Basic.Ack or Basic.Nack for a tag that has no entry in the
\* PendingConfirm map raises no error, removes no entry and puts nothing on
\* the work queue.
C25_ConfirmWithoutEntryIsHarmless ==
  [][\A tag \in unconfirmed :
       LostTagStep(tag) =>
         /\ crashed' = crashed
         /\ pendingConfirm' = pendingConfirm
         /\ workQueue' = workQueue]_vars

\* ----------------------------------------------- properties: after disconnect

\* C26: a Publish that was in the PendingConfirm map when disconnect() closed
\* the connection is afterwards neither put on the work queue by
\* on_delivery_confirmed nor sent with basic_publish, whatever frames arrive
\* until the transport reports closed.
C26_PendingAtDisconnectIsLost ==
  [][\A p \in pendingAtDisconnect :
       resubmits'[p] = resubmits[p] /\ sentCount'[p] = sentCount[p]]_vars

\* ------------------------------------------------------ properties: liveness

\* C27: every rpc_call that has registered its slot (enable_rpc_client has
\* been called) eventually returns a value to its caller, whatever the order
\* of its timeout and the arrival of a reply.
C27_RpcCallEventuallyReturns ==
  \A c \in Calls : (callPc[c] = "request") ~> (callPc[c] = "done")

\* C28: basic_publish is called at most MAX_ATTEMPTS times for one Publish,
\* the first send and the retries after nacks counted together.
C28_AtMostMaxAttemptsSends ==
  \A p \in Pubs : sentCount[p] <= MAX_ATTEMPTS

\* disconnect() has been called, a signal has been handled or the transport
\* has left the open state.
NotKeptOpen == closing \/ transport # "open"
\* C29: a Publish on the work queue of the Ready producer connection is
\* eventually confirmed by a Basic.Ack or dropped by the max-attempts check,
\* unless the connection does not stay open; the broker answers every declare
\* and confirms every message.
C29_EveryPublishReachesAnOutcome ==
  \A p \in Pubs :
    (phase = "ready" /\ p \in SeqRange(workQueue))
      ~> (acks[p] > 0 \/ dropped[p] \/ NotKeptOpen)

====
